---- MODULE Spec2Model ----
(***************************************************************************)
(* Model of the notification store of the order dashboard                  *)
(* (src/src/contexts/NotificationContext.tsx) and of the handlers that     *)
(* feed it.  The store is a React provider: two hook states                *)
(* (notifications, unreadCount), a load-on-mount effect, a                 *)
(* persist-on-change effect writing localStorage, and four callbacks.      *)
(*                                                                         *)
(* React applies queued functional updaters in call order, so the hook     *)
(* state is modelled by its value with every queued updater applied;       *)
(* `pending` counts the handler calls whose updates still wait for the     *)
(* next render commit, at which the persist effect runs.                   *)
(***************************************************************************)
EXTENDS Integers, Sequences, FiniteSets, TLC

VARIABLES
    notifications,      \* hook state: Notification[] (most recent first)
    unreadCount,        \* hook state: number
    storage,            \* localStorage item 'notifications'
    mounted,            \* the provider's mount effects have run
    pending,            \* handler calls whose state updates await a render
    seq,                \* addNotification calls issued so far (payload N_seq)
    now,                \* the clock read by new Date()
    ops,                \* handler calls of this behaviour (bounded)
    hasNotificationAPI, \* 'Notification' in window
    permission,         \* Notification.permission
    ctorThrows,         \* new Notification(...) throws (no constructor support)
    permissionRequests, \* calls of Notification.requestPermission()
    thrown,             \* the last addNotification call threw to its caller
    toast,              \* the last toast shown by an order handler
    lastOp,             \* the operation that produced this state
    remote,             \* the remote service's order collection
    orders,             \* Orders page hook state: Order[]
    user,               \* the signed-in actor (useAuth().user)
    activeTab,          \* Orders page hook state: the active tab
    dateRange,          \* Orders page hook state: a complete date range is set
    lastRequest,        \* the last order mutation request sent to the remote
    products,           \* the remote service's product collection
    forms,              \* per OrderForm: the product list it fetched on mount
    mutations,          \* status-change / mark-paid calls awaiting their response
    loads,              \* loadOrders calls awaiting their response
    stockRequests,      \* the stock updates order creation has sent so far
    isUpdateLoading     \* Orders page hook state: isUpdateLoading

vars == << notifications, unreadCount, storage, mounted, pending, seq, now, ops,
           hasNotificationAPI, permission, ctorThrows, permissionRequests,
           thrown, toast, lastOp, remote, orders, user, activeTab, dateRange,
           lastRequest, products, forms, mutations, loads, stockRequests,
           isUpdateLoading >>

asyncVars == << products, forms, mutations, loads, stockRequests, isUpdateLoading >>

orderVars == << remote, orders, user, activeTab, dateRange, lastRequest >>

(***************************************************************************)
(* Bounds of the exploration and program constants.                        *)
(***************************************************************************)
MaxNotifications == 50

MaxOps == 3

MaxAppends == 60

MaxBatch == 2

Epoch == 1000

NotLoaded == [loaded |-> FALSE, stock |-> << >>]

NoUrl == "undefined"

Min(a, b) == IF a < b THEN a ELSE b

Max(a, b) == IF a > b THEN a ELSE b

(***************************************************************************)
(* Dates and their JSON form.  A Date is a time value or Invalid Date      *)
(* (time value NaN).  JSON.stringify calls Date.prototype.toJSON: an ISO   *)
(* string for a valid date, null for an invalid one.  new Date(v) parses   *)
(* an ISO string back, takes a number as the time value, maps null to the  *)
(* epoch 0 and any other text to Invalid Date.                             *)
(***************************************************************************)
ValidDate(ms) == [valid |-> TRUE, ms |-> ms]

InvalidDate == [valid |-> FALSE, ms |-> 0]

DateToJSONNull(d) == [kind |-> "null", ms |-> 0]

DateToJSON(d) ==
    IF d.valid THEN [kind |-> "iso", ms |-> d.ms]
               ELSE [kind |-> "null", ms |-> 0]

DateFromJSON(j) ==
    CASE j.kind = "iso"    -> ValidDate(j.ms)
      [] j.kind = "number" -> ValidDate(j.ms)
      [] j.kind = "null"   -> ValidDate(0)
      [] OTHER             -> InvalidDate

(***************************************************************************)
(* JSON.stringify(notifications) and the load effect's parse.              *)
(***************************************************************************)
StringifyRecord(n) == [n EXCEPT !.timestamp = DateToJSON(n.timestamp)]

Stringify(list) ==
    [present |-> TRUE, wellFormed |-> TRUE,
     items |-> [i \in 1..Len(list) |-> StringifyRecord(list[i])]]

NoItem == [present |-> FALSE, wellFormed |-> TRUE, items |-> << >>]

FormatStored(p) == [p EXCEPT !.timestamp = DateFromJSON(p.timestamp)]

FormattedNotifications(raw) ==
    [i \in 1..Len(raw.items) |-> FormatStored(raw.items[i])]

LoadSucceeds(raw) == raw.present /\ raw.wellFormed

Unread(list) == Cardinality({i \in 1..Len(list) : ~list[i].read})

(***************************************************************************)
(* The state updaters of the four callbacks.                               *)
(***************************************************************************)
Slice(s, n) == SubSeq(s, 1, Min(Len(s), n))

NewNotification(n, id, t) ==
    [id |-> id, type |-> n.type, title |-> n.title, message |-> n.message,
     timestamp |-> ValidDate(t), read |-> FALSE, actionUrl |-> n.actionUrl]

AddUpdaterNoCap(prev, rec) == << rec >> \o prev

AddUpdaterStale(prev, rec) == << rec >>

AddUpdaterEvictNewest(prev, rec) ==
    IF Len(prev) < MaxNotifications THEN << rec >> \o prev
    ELSE << rec >> \o Tail(prev)

AddUpdater(prev, rec) == Slice(<< rec >> \o prev, MaxNotifications)

MarkUpdaterToggle(prev, id) ==
    [i \in 1..Len(prev) |->
        IF prev[i].id = id THEN [prev[i] EXCEPT !.read = ~@] ELSE prev[i]]

MarkUpdater(prev, id) ==
    [i \in 1..Len(prev) |->
        IF prev[i].id = id THEN [prev[i] EXCEPT !.read = TRUE] ELSE prev[i]]

MarkAllUpdater(prev) ==
    [i \in 1..Len(prev) |-> [prev[i] EXCEPT !.read = TRUE]]

ClearUpdaterKeep(prev) == prev

ClearUpdater(prev) == << >>

(***************************************************************************)
(* The browser alert: shown only if the API exists and permission is       *)
(* granted; the constructor call is not guarded, so it throws to the       *)
(* caller of addNotification where the constructor is not supported.       *)
(***************************************************************************)
MirrorAttempted == hasNotificationAPI /\ permission = "granted"

MirrorThrows == MirrorAttempted /\ ctorThrows

(***************************************************************************)
(* Math.random().toString(36).substr(2, 9): a random id.  Two draws are    *)
(* either different or equal; the draw is a fresh value or the value of    *)
(* the record at the head of the list.                                     *)
(***************************************************************************)
RandomIds ==
    {seq + 1} \cup (IF Len(notifications) > 0 THEN {notifications[1].id} ELSE {})

FreshIds == {seq + 1}

Payload(type, title, url) ==
    [type |-> type, title |-> title, message |-> seq + 1, actionUrl |-> url]

Events ==
    { Payload("product", "Low Stock Alert", "/products"),
      Payload("system", "Notice", NoUrl) }

MarkPaidEvent == Payload("order", "Order Marked as Paid", "/orders")

EnvUnchanged == UNCHANGED << hasNotificationAPI, permission, ctorThrows >>

(***************************************************************************)
(* addNotification as called from any handler: the state updates of one    *)
(* call.                                                                   *)
(***************************************************************************)
AddCall(n, id) ==
    /\ notifications' = AddUpdater(notifications, NewNotification(n, id, now))
    /\ unreadCount' = unreadCount + 1
    /\ seq' = seq + 1
    /\ thrown' = MirrorThrows

AddNotification(n, id) ==
    /\ mounted
    /\ AddCall(n, id)
    /\ pending' = pending + 1
    /\ now' = now + 1
    /\ ops' = ops + 1
    /\ lastOp' = "add"
    /\ EnvUnchanged
    /\ UNCHANGED orderVars
    /\ UNCHANGED asyncVars
    /\ UNCHANGED << storage, mounted, permissionRequests, toast >>

MarkAsRead(id) ==
    /\ mounted
    /\ notifications' = MarkUpdater(notifications, id)
    /\ unreadCount' = Max(0, unreadCount - 1)
    /\ pending' = pending + 1
    /\ now' = now + 1
    /\ ops' = ops + 1
    /\ lastOp' = "markAsRead"
    /\ EnvUnchanged
    /\ UNCHANGED orderVars
    /\ UNCHANGED asyncVars
    /\ UNCHANGED << storage, mounted, seq, permissionRequests, thrown, toast >>

MarkAllAsRead ==
    /\ mounted
    /\ notifications' = MarkAllUpdater(notifications)
    /\ unreadCount' = 0
    /\ pending' = pending + 1
    /\ now' = now + 1
    /\ ops' = ops + 1
    /\ lastOp' = "markAllAsRead"
    /\ EnvUnchanged
    /\ UNCHANGED orderVars
    /\ UNCHANGED asyncVars
    /\ UNCHANGED << storage, mounted, seq, permissionRequests, thrown, toast >>

ClearNotifications ==
    /\ mounted
    /\ notifications' = ClearUpdater(notifications)
    /\ unreadCount' = 0
    /\ storage' = NoItem
    /\ pending' = pending + 1
    /\ now' = now + 1
    /\ ops' = ops + 1
    /\ lastOp' = "clear"
    /\ EnvUnchanged
    /\ UNCHANGED orderVars
    /\ UNCHANGED asyncVars
    /\ UNCHANGED << mounted, seq, permissionRequests, thrown, toast >>

(***************************************************************************)
(* The render commit: the persist effect writes the list.                  *)
(***************************************************************************)
Render ==
    /\ mounted
    /\ pending > 0
    /\ storage' = Stringify(notifications)
    /\ pending' = 0
    /\ lastOp' = "render"
    /\ EnvUnchanged
    /\ UNCHANGED orderVars
    /\ UNCHANGED asyncVars
    /\ UNCHANGED << notifications, unreadCount, mounted, seq, now, ops,
                    permissionRequests, thrown, toast >>

(***************************************************************************)
(* The mount effects, in declaration order: load, persist (of the first    *)
(* render's empty list), permission request.  The loaded list is persisted *)
(* by the render that follows.                                             *)
(***************************************************************************)
NeedsPermissionRequestUnlessGranted ==
    hasNotificationAPI /\ permission # "granted"

NeedsPermissionRequest ==
    hasNotificationAPI /\ permission # "granted" /\ permission # "denied"

MountEffects ==
    /\ notifications' =
          IF LoadSucceeds(storage) THEN FormattedNotifications(storage) ELSE << >>
    /\ unreadCount' =
          IF LoadSucceeds(storage) THEN Unread(FormattedNotifications(storage)) ELSE 0
    /\ storage' = Stringify(<< >>)
    /\ pending' = IF LoadSucceeds(storage) THEN 1 ELSE 0
    /\ permissionRequests' =
          IF NeedsPermissionRequest THEN permissionRequests + 1 ELSE permissionRequests
    /\ mounted' = TRUE
    /\ thrown' = FALSE
    /\ toast' = "none"
    /\ EnvUnchanged
    /\ UNCHANGED << seq, now >>

Mount ==
    /\ ~mounted
    /\ MountEffects
    /\ lastOp' = "mount"
    /\ UNCHANGED ops
    /\ UNCHANGED orderVars
    /\ UNCHANGED asyncVars

Restart ==
    /\ mounted
    /\ pending = 0
    /\ MountEffects
    /\ ops' = ops + 1
    /\ lastOp' = "restart"
    /\ orders' = << >>
    /\ activeTab' = "all"
    /\ dateRange' = FALSE
    /\ UNCHANGED << remote, user, lastRequest >>
    /\ forms' = [f \in DOMAIN forms |-> NotLoaded]
    /\ mutations' = << >>
    /\ loads' = << >>
    /\ isUpdateLoading' = FALSE
    /\ UNCHANGED << products, stockRequests >>

(***************************************************************************)
(* Orders.  The remote service holds the order collection; the Orders page *)
(* keeps a list of the records it fetched.  An absent date or reference    *)
(* (undefined / null) is NoDate / NoOne.                                   *)
(***************************************************************************)
OrderIds == {"o1", "o2", "o3", "o4", "o5"}

OrderSeq == << "o1", "o2", "o3", "o4", "o5" >>

OrderStatuses == {"pending", "dc", "invoice", "dispatched"}

NoDate == [valid |-> FALSE, ms |-> 0]

NoOne == "none"

Item(p, q, price) == [productId |-> p, quantity |-> q, price |-> price]

RECURSIVE CalculateTotal(_)
CalculateTotal(items) ==
    IF items = << >> THEN 0
    ELSE Head(items).quantity * Head(items).price + CalculateTotal(Tail(items))

(***************************************************************************)
(* The remote service: a PUT stores the fields of the request body over    *)
(* the record and answers with the whole record; the list endpoints        *)
(* answer with the stored records that match.                              *)
(***************************************************************************)
ApplyPatch(rec, patch) ==
    [f \in DOMAIN rec |-> IF f \in DOMAIN patch THEN patch[f] ELSE rec[f]]

RemoteOrders(db) ==
    LET ids == SelectSeq(OrderSeq, LAMBDA o : db[o].exists)
    IN  [i \in 1..Len(ids) |-> db[ids[i]]]

FetchOrders(db, status) ==
    SelectSeq(RemoteOrders(db), LAMBDA r : status = "all" \/ r.status = status)

FetchOrdersByDateRange(db) == SelectSeq(RemoteOrders(db), LAMBDA r : r.inRange)

FetchOrdersByAssignedTo(db, uid) ==
    SelectSeq(RemoteOrders(db), LAMBDA r : r.assignedTo = uid)

FetchOrdersByCreator(db, uid) ==
    SelectSeq(RemoteOrders(db), LAMBDA r : r.createdBy = uid)

EmptyPatch == [f \in {} |-> TRUE]

Request(kind, o, patch) ==
    [n |-> lastRequest.n + 1, kind |-> kind, id |-> o, patch |-> patch]

(***************************************************************************)
(* loadOrders: the branch taken depends on the date range, the tab and     *)
(* the actor's role.                                                       *)
(***************************************************************************)
FetchedOrders(db, tab, range) ==
    IF range THEN FetchOrdersByDateRange(db)
    ELSE IF tab = "my-orders" THEN FetchOrdersByAssignedTo(db, user.id)
    ELSE IF user.role = "executive"
         THEN IF tab # "all"
              THEN SelectSeq(FetchOrdersByCreator(db, user.id), LAMBDA r : r.status = tab)
              ELSE FetchOrdersByCreator(db, user.id)
    ELSE IF user.role # "admin"
         THEN SelectSeq(FetchOrders(db, tab),
                        LAMBDA r : r.assignedTo = NoOne \/ r.assignedTo = user.id)
         ELSE FetchOrders(db, tab)

StoreUnchanged ==
    UNCHANGED << notifications, unreadCount, storage, mounted, pending, seq,
                 permissionRequests, thrown >>

LoadOrders(tab, range, ok) ==
    /\ mounted
    /\ activeTab' = tab
    /\ dateRange' = range
    /\ orders' = IF ok THEN FetchedOrders(remote, tab, range) ELSE orders
    /\ toast' = IF ok THEN toast ELSE "Failed to load orders"
    /\ lastOp' = IF ok THEN "loadOrders" ELSE "loadOrdersFailed"
    /\ now' = now + 1
    /\ ops' = ops + 1
    /\ StoreUnchanged
    /\ EnvUnchanged
    /\ UNCHANGED << remote, user, lastRequest >>
    /\ UNCHANGED asyncVars

\* the tab effect: a tab change (or the mount, or a refresh) loads with the
\* date range as it is
ChangeTab(tab, ok) == LoadOrders(tab, dateRange, ok)

\* the date-range effect: loads only once both ends of the range are set
SetDateRange(ok) == LoadOrders(activeTab, TRUE, ok)

ClearDateRange ==
    /\ mounted
    /\ dateRange
    /\ dateRange' = FALSE
    /\ lastOp' = "clearDateRange"
    /\ now' = now + 1
    /\ ops' = ops + 1
    /\ StoreUnchanged
    /\ EnvUnchanged
    /\ UNCHANGED << toast, remote, orders, user, activeTab, lastRequest >>
    /\ UNCHANGED asyncVars

(***************************************************************************)
(* The lifecycle handlers of the Orders page.                              *)
(***************************************************************************)
StatusPatchWithTotal(status, t) ==
    ("status" :> status) @@ ("total" :> 0)

StatusPatch(status, t) ==
    IF status = "dispatched"
    THEN ("status" :> status) @@ ("dispatchDate" :> ValidDate(t))
    ELSE ("status" :> status)

PaidPatch(t) == ("isPaid" :> TRUE) @@ ("paidAt" :> ValidDate(t))

ReplaceOrderMerged(list, o, updated) ==
    [i \in 1..Len(list) |->
        IF list[i]._id = o
        THEN [list[i] EXCEPT !.status = updated.status, !.isPaid = updated.isPaid]
        ELSE list[i]]

ReplaceOrder(list, o, updated) ==
    [i \in 1..Len(list) |-> IF list[i]._id = o THEN updated ELSE list[i]]

RemoveOrder(list, o) == SelectSeq(list, LAMBDA r : r._id # o)

OrdersAfterUpdateOptimistic(success, list, o, updated) ==
    ReplaceOrder(list, o, updated)

OrdersAfterUpdate(success, list, o, updated) ==
    IF success THEN ReplaceOrder(list, o, updated) ELSE list

HandleStatusChange(o, status, ok) ==
    LET patch   == StatusPatch(status, now)
        success == ok /\ remote[o].exists
        updated == ApplyPatch(remote[o], patch)
    IN  /\ mounted
        /\ lastRequest' = Request("updateOrder", o, patch)
        /\ remote' = IF success THEN [remote EXCEPT ![o] = updated] ELSE remote
        /\ orders' = OrdersAfterUpdate(success, orders, o, updated)
        /\ toast' = IF success THEN "Order status updated"
                               ELSE "Failed to update order status"
        /\ lastOp' = IF success THEN "statusChange" ELSE "statusChangeFailed"
        /\ now' = now + 1
        /\ ops' = ops + 1
        /\ StoreUnchanged
        /\ EnvUnchanged
        /\ UNCHANGED << user, activeTab, dateRange >>
        /\ isUpdateLoading' = FALSE
        /\ UNCHANGED << products, forms, mutations, loads, stockRequests >>

(***************************************************************************)
(* handleMarkPaid: the remote call, then the toast and the notification    *)
(* inside one try block; any exception shows the failure toast.            *)
(***************************************************************************)
HandleMarkPaid(o, remoteOk, id) ==
    LET patch   == PaidPatch(now)
        success == remoteOk /\ remote[o].exists
        updated == ApplyPatch(remote[o], patch)
    IN  /\ mounted
        /\ lastRequest' = Request("markOrderAsPaid", o, patch)
        /\ remote' = IF success THEN [remote EXCEPT ![o] = updated] ELSE remote
        /\ orders' = OrdersAfterUpdate(success, orders, o, updated)
        /\ IF success
           THEN /\ AddCall(MarkPaidEvent, id)
                /\ toast' = IF MirrorThrows THEN "Failed to mark order as paid"
                                            ELSE "Order marked as paid"
                /\ pending' = pending + 1
           ELSE /\ toast' = "Failed to mark order as paid"
                /\ thrown' = FALSE
                /\ UNCHANGED << notifications, unreadCount, seq, pending >>
        /\ now' = now + 1
        /\ ops' = ops + 1
        /\ lastOp' = IF success THEN "markPaid" ELSE "markPaidFailed"
        /\ EnvUnchanged
        /\ UNCHANGED << storage, mounted, permissionRequests >>
        /\ UNCHANGED << user, activeTab, dateRange >>
        /\ isUpdateLoading' = FALSE
        /\ UNCHANGED << products, forms, mutations, loads, stockRequests >>

DeleteEvent == Payload("order", "Order Deleted", "/orders")

HandleDeleteOrder(o, ok, id) ==
    LET success == ok /\ remote[o].exists
    IN  /\ mounted
        /\ lastRequest' = Request("deleteOrder", o, EmptyPatch)
        /\ remote' = IF success THEN [remote EXCEPT ![o].exists = FALSE] ELSE remote
        /\ orders' = IF success THEN RemoveOrder(orders, o) ELSE orders
        /\ IF success
           THEN /\ AddCall(DeleteEvent, id)
                /\ toast' = IF MirrorThrows THEN "Failed to delete order"
                                            ELSE "Order deleted successfully"
                /\ pending' = pending + 1
           ELSE /\ toast' = "Failed to delete order"
                /\ thrown' = FALSE
                /\ UNCHANGED << notifications, unreadCount, seq, pending >>
        /\ now' = now + 1
        /\ ops' = ops + 1
        /\ lastOp' = IF success THEN "delete" ELSE "deleteFailed"
        /\ EnvUnchanged
        /\ UNCHANGED << storage, mounted, permissionRequests >>
        /\ UNCHANGED << user, activeTab, dateRange >>
        /\ UNCHANGED asyncVars

(***************************************************************************)
(* UpdateOrderForm.onSubmit (the full order edit) for the list entry whose *)
(* form is open, followed on success by the page's onSuccess: a reload.    *)
(***************************************************************************)
EntryOf(list, o) == CHOOSE r \in {list[i] : i \in 1..Len(list)} : r._id = o

Entry(o) == EntryOf(orders, o)

OrderData(entry, status, items, t) ==
    LET base == ("status" :> status) @@ ("paymentCondition" :> entry.paymentCondition)
                @@ ("assignedTo" :> entry.assignedTo) @@ ("items" :> items)
                @@ ("total" :> CalculateTotal(items))
    IN  IF status = "dispatched" THEN base @@ ("dispatchDate" :> ValidDate(t)) ELSE base

UpdateEvent == Payload("order", "Order Updated", "/orders")

SubmitUpdateOrder(o, status, items, ok, reloadOk, id) ==
    LET patch    == OrderData(Entry(o), status, items, now)
        success  == ok /\ remote[o].exists
        updated  == ApplyPatch(remote[o], patch)
        reloaded == success /\ ~MirrorThrows /\ reloadOk
    IN  /\ mounted
        /\ Len(items) > 0
        /\ lastRequest' = Request("updateOrder", o, patch)
        /\ remote' = IF success THEN [remote EXCEPT ![o] = updated] ELSE remote
        /\ orders' = IF reloaded THEN FetchedOrders(remote', activeTab, dateRange)
                                 ELSE orders
        /\ IF success
           THEN /\ AddCall(UpdateEvent, id)
                /\ toast' = IF MirrorThrows THEN "Failed to update order"
                            ELSE IF reloadOk THEN "Order updated successfully"
                            ELSE "Failed to load orders"
                /\ pending' = pending + 1
           ELSE /\ toast' = "Failed to update order"
                /\ thrown' = FALSE
                /\ UNCHANGED << notifications, unreadCount, seq, pending >>
        /\ now' = now + 1
        /\ ops' = ops + 1
        /\ lastOp' = IF success THEN "updateOrder" ELSE "updateOrderFailed"
        /\ EnvUnchanged
        /\ UNCHANGED << storage, mounted, permissionRequests >>
        /\ UNCHANGED << user, activeTab, dateRange >>
        /\ UNCHANGED asyncVars

(***************************************************************************)
(* The lifecycle handlers and loadOrders step by step: the call sends the  *)
(* request and suspends at its await; the continuation runs when the       *)
(* response arrives, with the `orders` of the render in which the handler   *)
(* was called.  Responses arrive in any order.  Finished calls stay in the *)
(* sequences, marked done.                                                 *)
(***************************************************************************)
InFlight(calls) == { k \in 1..Len(calls) : ~calls[k].done }

StartMutation(kind, o, patch, ok) ==
    LET success == ok /\ remote[o].exists
        updated == ApplyPatch(remote[o], patch)
    IN  /\ mounted
        /\ isUpdateLoading' = TRUE
        /\ lastRequest' = Request(IF kind = "status" THEN "updateOrder"
                                                     ELSE "markOrderAsPaid", o, patch)
        /\ remote' = IF success THEN [remote EXCEPT ![o] = updated] ELSE remote
        /\ mutations' = Append(mutations,
                               [kind |-> kind, id |-> o, ok |-> success,
                                updated |-> updated, captured |-> orders,
                                overlapped |-> InFlight(mutations) # {},
                                done |-> FALSE])
        /\ lastOp' = IF kind = "status" THEN "startStatusChange" ELSE "startMarkPaid"
        /\ now' = now + 1
        /\ ops' = ops + 1
        /\ StoreUnchanged
        /\ EnvUnchanged
        /\ UNCHANGED << toast, orders, user, activeTab, dateRange >>
        /\ UNCHANGED << products, forms, loads, stockRequests >>

StartStatusChange(o, status, ok) == StartMutation("status", o, StatusPatch(status, now), ok)

StartMarkPaid(o, ok) == StartMutation("paid", o, PaidPatch(now), ok)

CompleteMutation(k, id) ==
    LET m == mutations[k]
    IN  /\ k \in InFlight(mutations)
        /\ mutations' = [mutations EXCEPT ![k].done = TRUE]
        /\ orders' = IF m.ok THEN ReplaceOrder(m.captured, m.id, m.updated)
                             ELSE orders
        /\ isUpdateLoading' = FALSE
        /\ IF m.ok /\ m.kind = "paid"
           THEN /\ AddCall(MarkPaidEvent, id)
                /\ toast' = IF MirrorThrows THEN "Failed to mark order as paid"
                                            ELSE "Order marked as paid"
                /\ pending' = pending + 1
           ELSE /\ toast' = IF m.ok THEN "Order status updated"
                            ELSE IF m.kind = "paid" THEN "Failed to mark order as paid"
                            ELSE "Failed to update order status"
                /\ thrown' = FALSE
                /\ UNCHANGED << notifications, unreadCount, seq, pending >>
        /\ lastOp' = IF ~m.ok THEN "mutationFailed"
                     ELSE IF m.kind = "paid" THEN "markPaidDone" ELSE "statusChangeDone"
        /\ now' = now + 1
        /\ EnvUnchanged
        /\ UNCHANGED << storage, mounted, permissionRequests, ops >>
        /\ UNCHANGED << remote, user, activeTab, dateRange, lastRequest >>
        /\ UNCHANGED << products, forms, loads, stockRequests >>

StartLoad(tab, range, ok) ==
    /\ mounted
    /\ activeTab' = tab
    /\ dateRange' = range
    /\ loads' = Append(loads, [tab |-> tab, range |-> range, ok |-> ok,
                               result |-> FetchedOrders(remote, tab, range),
                               done |-> FALSE])
    /\ lastOp' = "startLoad"
    /\ now' = now + 1
    /\ ops' = ops + 1
    /\ StoreUnchanged
    /\ EnvUnchanged
    /\ UNCHANGED << toast, remote, orders, user, lastRequest >>
    /\ UNCHANGED << products, forms, mutations, stockRequests, isUpdateLoading >>

StartChangeTab(tab, ok) == StartLoad(tab, dateRange, ok)

StartSetDateRange(ok) == StartLoad(activeTab, TRUE, ok)

CompleteLoad(k) ==
    LET l == loads[k]
    IN  /\ k \in InFlight(loads)
        /\ loads' = [loads EXCEPT ![k].done = TRUE]
        /\ orders' = IF l.ok THEN l.result ELSE orders
        /\ toast' = IF l.ok THEN toast ELSE "Failed to load orders"
        /\ lastOp' = IF l.ok THEN "loadDone" ELSE "loadFailed"
        /\ now' = now + 1
        /\ StoreUnchanged
        /\ EnvUnchanged
        /\ UNCHANGED << remote, user, activeTab, dateRange, lastRequest, ops >>
        /\ UNCHANGED << products, forms, mutations, stockRequests, isUpdateLoading >>

(***************************************************************************)
(* Dashboard.loadData: orders and products are fetched together; one       *)
(* notification reports the low-stock products of the pass.                *)
(***************************************************************************)
LowStockItemsAtOrBelow(ps) ==
    { p \in DOMAIN ps : ps[p].threshold.isNumber /\ ps[p].stock <= ps[p].threshold.n }

LowStockItems(ps) ==
    { p \in DOMAIN ps : ps[p].threshold.isNumber /\ ps[p].stock < ps[p].threshold.n }

LowStockEvent == Payload("product", "Low Stock Alert", "/products")

LoadDashboard(ok, id) ==
    /\ mounted
    /\ IF ok /\ LowStockItems(products) # {}
       THEN /\ AddCall(LowStockEvent, id)
            /\ pending' = pending + 1
            /\ toast' = IF MirrorThrows THEN "Failed to load dashboard data" ELSE toast
       ELSE /\ toast' = IF ok THEN toast ELSE "Failed to load dashboard data"
            /\ thrown' = FALSE
            /\ UNCHANGED << notifications, unreadCount, seq, pending >>
    /\ now' = now + 1
    /\ ops' = ops + 1
    /\ lastOp' = IF ok THEN "loadDashboard" ELSE "loadDashboardFailed"
    /\ EnvUnchanged
    /\ UNCHANGED << storage, mounted, permissionRequests >>
    /\ UNCHANGED orderVars
    /\ UNCHANGED asyncVars

(***************************************************************************)
(* OrderForm in create mode.  The form fetches the product list once, on   *)
(* mount; the form "here" belongs to this session, the form "elsewhere" to *)
(* another session, whose store, list and toasts are not part of the       *)
(* state.                                                                  *)
(***************************************************************************)
LoadProducts(f, ok) ==
    /\ mounted
    /\ forms' = [forms EXCEPT ![f] =
                    IF ok THEN [loaded |-> TRUE,
                                stock |-> [p \in DOMAIN products |-> products[p].stock]]
                          ELSE NotLoaded]
    /\ toast' = IF ok \/ f # "here" THEN toast ELSE "Failed to load products"
    /\ lastOp' = IF ok THEN "loadProducts" ELSE "loadProductsFailed"
    /\ now' = now + 1
    /\ ops' = ops + 1
    /\ StoreUnchanged
    /\ EnvUnchanged
    /\ UNCHANGED orderVars
    /\ UNCHANGED << products, mutations, loads, stockRequests, isUpdateLoading >>

BlankOrder(o) ==
    [_id |-> o, exists |-> TRUE, status |-> "pending", isPaid |-> FALSE,
     paidAt |-> NoDate, dispatchDate |-> NoDate, assignedTo |-> NoOne,
     createdBy |-> NoOne, items |-> << >>, total |-> 0,
     paymentCondition |-> "immediate", inRange |-> TRUE]

FreshOrderSeq == << "o4", "o5" >>

NewOrderIds == { k \in 1..Len(FreshOrderSeq) : ~remote[FreshOrderSeq[k]].exists }

NewOrderId == FreshOrderSeq[CHOOSE k \in NewOrderIds : \A j \in NewOrderIds : k <= j]

CreateOrderData(status, items, creator, t) ==
    LET base == ("status" :> status) @@ ("paymentCondition" :> "immediate")
                @@ ("assignedTo" :> NoOne) @@ ("items" :> items)
                @@ ("total" :> CalculateTotal(items)) @@ ("isPaid" :> FALSE)
                @@ ("createdBy" :> creator)
    IN  IF status = "dispatched" THEN base @@ ("dispatchDate" :> ValidDate(t)) ELSE base

\* the stock update loop: one request per line item, computed from the
\* product list the form fetched; a failed request is logged and skipped
StockUpdatesAbortOnFailure(o, snapshot, items, stockOk) ==
    LET all == [k \in 1..Len(items) |->
                   [order |-> o, id |-> items[k].productId,
                    stock |-> Max(0, snapshot[items[k].productId] - items[k].quantity),
                    ok |-> stockOk[items[k].productId]]]
        bad == { k \in 1..Len(items) : ~all[k].ok }
    IN  IF bad = {} THEN all
        ELSE SubSeq(all, 1, CHOOSE k \in bad : \A j \in bad : k <= j)

StockUpdates(o, snapshot, items, stockOk) ==
    [k \in 1..Len(items) |->
        [order |-> o, id |-> items[k].productId,
         stock |-> Max(0, snapshot[items[k].productId] - items[k].quantity),
         ok |-> stockOk[items[k].productId]]]

RECURSIVE ApplyStockUpdates(_, _)
ApplyStockUpdates(ps, updates) ==
    IF updates = << >> THEN ps
    ELSE ApplyStockUpdates(
             IF Head(updates).ok
             THEN [ps EXCEPT ![Head(updates).id].stock = Head(updates).stock]
             ELSE ps,
             Tail(updates))

CreateEvent == Payload("order", "New Order Created", "/orders")

SubmitCreateOrder(f, status, items, ok, stockOk, reloadOk, id) ==
    LET here     == f = "here"
        o        == NewOrderId
        data     == CreateOrderData(status, items, IF here THEN user.id ELSE "E2", now)
        threw    == here /\ MirrorThrows
        updates  == IF ok /\ ~threw THEN StockUpdates(o, forms[f].stock, items, stockOk)
                                    ELSE << >>
        finished == ok /\ ~threw
    IN  /\ mounted
        /\ forms[f].loaded
        /\ Len(items) > 0
        /\ NewOrderIds # {}
        /\ lastRequest' = Request("createOrder", o, data)
        /\ remote' = IF ok THEN [remote EXCEPT ![o] = ApplyPatch(BlankOrder(o), data)]
                           ELSE remote
        /\ stockRequests' = stockRequests \o updates
        /\ products' = ApplyStockUpdates(products, updates)
        /\ forms' = IF finished THEN [forms EXCEPT ![f] = NotLoaded] ELSE forms
        /\ IF ok /\ here
           THEN /\ AddCall(CreateEvent, id)
                /\ pending' = pending + 1
                /\ toast' = IF threw THEN "Error creating order"
                            ELSE IF reloadOk THEN "Order created successfully"
                            ELSE "Failed to load orders"
                /\ orders' = IF ~threw /\ reloadOk
                             THEN FetchedOrders(remote', activeTab, dateRange)
                             ELSE orders
           ELSE /\ toast' = IF here THEN "Error creating order" ELSE toast
                /\ thrown' = FALSE
                /\ UNCHANGED << notifications, unreadCount, seq, pending, orders >>
        /\ now' = now + 1
        /\ ops' = ops + 1
        /\ lastOp' = IF ~ok THEN "createOrderFailed"
                     ELSE IF here THEN "createOrder" ELSE "createOrderElsewhere"
        /\ EnvUnchanged
        /\ UNCHANGED << storage, mounted, permissionRequests >>
        /\ UNCHANGED << user, activeTab, dateRange >>
        /\ UNCHANGED << mutations, loads, isUpdateLoading >>

(***************************************************************************)
(* Initial states.  The hook states start empty; localStorage holds what   *)
(* an earlier session of the program left there: nothing, or a log of k    *)
(* records N_1..N_k of which the even-numbered ones were read.             *)
(***************************************************************************)
SavedRecord(k) ==
    [id |-> k, type |-> "order", title |-> "Order Updated", message |-> k,
     timestamp |-> [kind |-> "iso", ms |-> Epoch - MaxNotifications + k],
     read |-> (k % 2 = 0), actionUrl |-> "/orders"]

SavedLog(k) ==
    IF k = 0 THEN NoItem
    ELSE [present |-> TRUE, wellFormed |-> TRUE,
          items |-> [i \in 1..k |-> SavedRecord(k + 1 - i)]]

PreloadSizes == {0, 2, MaxNotifications - 1}

Environments ==
    { [api |-> FALSE, perm |-> "default", throws |-> FALSE],
      [api |-> TRUE,  perm |-> "default", throws |-> FALSE],
      [api |-> TRUE,  perm |-> "denied",  throws |-> FALSE],
      [api |-> TRUE,  perm |-> "granted", throws |-> FALSE],
      [api |-> TRUE,  perm |-> "granted", throws |-> TRUE] }

InitialOrder(o) ==
    CASE o = "o1" ->
           [_id |-> o, exists |-> TRUE, status |-> "pending", isPaid |-> FALSE,
            paidAt |-> NoDate, dispatchDate |-> NoDate, assignedTo |-> NoOne,
            createdBy |-> "E1", items |-> << Item("p1", 2, 10) >>, total |-> 20,
            paymentCondition |-> "immediate", inRange |-> TRUE]
      [] o = "o2" ->
           [_id |-> o, exists |-> TRUE, status |-> "dispatched", isPaid |-> TRUE,
            paidAt |-> ValidDate(Epoch - 2), dispatchDate |-> ValidDate(Epoch - 1),
            assignedTo |-> "S1", createdBy |-> "E2",
            items |-> << Item("p2", 1, 5) >>, total |-> 5,
            paymentCondition |-> "days15", inRange |-> FALSE]
      [] o = "o3" ->
           [_id |-> o, exists |-> TRUE, status |-> "dc", isPaid |-> FALSE,
            paidAt |-> NoDate, dispatchDate |-> NoDate, assignedTo |-> "S2",
            createdBy |-> NoOne, items |-> << Item("p1", 3, 10) >>, total |-> 30,
            paymentCondition |-> "days30", inRange |-> TRUE]
      [] OTHER -> [BlankOrder(o) EXCEPT !.exists = FALSE]

InitialRemote == [o \in OrderIds |-> InitialOrder(o)]

Users ==
    { [role |-> "admin", id |-> "A1"],
      [role |-> "staff", id |-> "S1"],
      [role |-> "executive", id |-> "E1"] }

ProductIds == {"p1", "p2", "p3"}

FormIds == {"here", "elsewhere"}

Product(stock, threshold) == [stock |-> stock, threshold |-> threshold]

NoThreshold == [isNumber |-> FALSE, n |-> 0]

Threshold(n) == [isNumber |-> TRUE, n |-> n]

InitialProducts ==
    [p \in ProductIds |->
        CASE p = "p1" -> Product(5, Threshold(2))
          [] p = "p2" -> Product(3, Threshold(2))
          [] OTHER -> Product(1, NoThreshold)]

InitBackend ==
    /\ products = InitialProducts
    /\ remote = InitialRemote
    /\ user = [role |-> "admin", id |-> "A1"]

InitHooks ==
    /\ notifications = << >>
    /\ unreadCount = 0
    /\ mounted = FALSE
    /\ pending = 0
    /\ now = Epoch
    /\ ops = 0
    /\ permissionRequests = 0
    /\ thrown = FALSE
    /\ toast = "none"
    /\ lastOp = "init"
    /\ orders = << >>
    /\ activeTab = "all"
    /\ dateRange = FALSE
    /\ lastRequest = [n |-> 0, kind |-> "none", id |-> NoOne, patch |-> EmptyPatch]
    /\ forms = [f \in FormIds |-> NotLoaded]
    /\ mutations = << >>
    /\ loads = << >>
    /\ stockRequests = << >>
    /\ isUpdateLoading = FALSE

InitEnv ==
    \E e \in Environments :
        /\ hasNotificationAPI = e.api
        /\ permission = e.perm
        /\ ctorThrows = e.throws

Init ==
    /\ InitHooks
    /\ InitEnv
    /\ \E k \in PreloadSizes : storage = SavedLog(k) /\ seq = k
    /\ InitBackend

MarkTargets ==
    {0} \cup { notifications[i].id :
                  i \in {j \in {1, 2, Len(notifications)} : 1 <= j /\ j <= Len(notifications)} }

Next ==
    \/ Mount
    \/ Render
    \/ ops < MaxOps /\ pending < MaxBatch /\ \E n \in Events, id \in RandomIds : AddNotification(n, id)
    \/ ops < MaxOps /\ pending < MaxBatch /\ \E id \in MarkTargets : MarkAsRead(id)
    \/ ops < MaxOps /\ pending < MaxBatch /\ MarkAllAsRead
    \/ ops < MaxOps /\ pending < MaxBatch /\ ClearNotifications
    \/ ops < MaxOps /\ Restart
    \/ ops < MaxOps /\ pending < MaxBatch /\ \E ok \in BOOLEAN, id \in RandomIds : HandleMarkPaid("o1", ok, id)

Spec == Init /\ [][Next]_vars

(***************************************************************************)
(* The append scenario: a fresh install (no stored item) into which        *)
(* distinct notifications N_1, N_2, ... are appended one after another.    *)
(***************************************************************************)
ScenarioEvent == Payload("system", "Notice", NoUrl)

InitFresh ==
    /\ InitHooks
    /\ InitEnv
    /\ storage = NoItem
    /\ seq = 0
    /\ InitBackend

NextAppend ==
    \/ Mount
    \/ Render
    \/ seq < MaxAppends /\ pending < MaxBatch /\ \E id \in FreshIds : AddNotification(ScenarioEvent, id)

SpecAppend == InitFresh /\ [][NextAppend]_vars

(***************************************************************************)
(* Loading a stored item the program did not write itself: an entry whose  *)
(* timestamp is no date string, an entry with a null timestamp, or text    *)
(* that is no JSON at all.                                                 *)
(***************************************************************************)
StoredWith(k, stamp) == [SavedRecord(k) EXCEPT !.timestamp = stamp]

Unparsable == [kind |-> "text", ms |-> 0]

ForeignLogs ==
    { [present |-> TRUE, wellFormed |-> TRUE,
       items |-> << SavedRecord(3), StoredWith(2, Unparsable), SavedRecord(1) >>],
      [present |-> TRUE, wellFormed |-> TRUE,
       items |-> << StoredWith(3, Unparsable), SavedRecord(2), SavedRecord(1) >>],
      [present |-> TRUE, wellFormed |-> TRUE,
       items |-> << SavedRecord(3), SavedRecord(2), StoredWith(1, [kind |-> "null", ms |-> 0]) >>],
      [present |-> TRUE, wellFormed |-> FALSE, items |-> << >>] }

InitLoad ==
    /\ InitHooks
    /\ InitEnv
    /\ storage \in ForeignLogs
    /\ seq = 3
    /\ InitBackend

SpecLoad == InitLoad /\ [][Next]_vars

(***************************************************************************)
(* The permission prompt: the browser settles a request the provider has   *)
(* issued when the user answers it; a dismissed prompt leaves "default".   *)
(***************************************************************************)
AnswerPermission ==
    /\ hasNotificationAPI
    /\ permissionRequests > 0
    /\ permission = "default"
    /\ permission' \in {"granted", "denied"}
    /\ lastOp' = "answerPermission"
    /\ UNCHANGED << notifications, unreadCount, storage, mounted, pending, seq,
                    now, ops, hasNotificationAPI, ctorThrows,
                    permissionRequests, thrown, toast >>
    /\ UNCHANGED orderVars
    /\ UNCHANGED asyncVars

InitPermission ==
    /\ InitHooks
    /\ InitEnv
    /\ \E k \in {0, 2} : storage = SavedLog(k) /\ seq = k
    /\ InitBackend

NextPermission ==
    \/ Next
    \/ AnswerPermission

SpecPermission == InitPermission /\ [][NextPermission]_vars

(***************************************************************************)
(* The Orders page: a signed-in actor of any role works on the listed      *)
(* orders.  Only listed orders have a row, a dialog or a form.             *)
(***************************************************************************)
MaxOrderOps == 3

Tabs == {"all", "my-orders"} \cup OrderStatuses

Listed == { orders[i]._id : i \in 1..Len(orders) }

EditedItems(items) ==
    [items EXCEPT ![1] = [@ EXCEPT !.quantity = @ + 1]]

InitOrders ==
    /\ InitHooks
    /\ hasNotificationAPI = FALSE
    /\ permission = "default"
    /\ ctorThrows = FALSE
    /\ storage = NoItem
    /\ seq = 0
    /\ remote = InitialRemote
    /\ products = InitialProducts
    /\ user \in Users

NextOrders ==
    \/ Mount
    \/ ops < MaxOrderOps /\ \E tab \in Tabs, ok \in BOOLEAN : ChangeTab(tab, ok)
    \/ ops < MaxOrderOps /\ \E ok \in BOOLEAN : SetDateRange(ok)
    \/ ops < MaxOrderOps /\ ClearDateRange
    \/ ops < MaxOrderOps /\ \E o \in Listed, status \in OrderStatuses, ok \in BOOLEAN :
            HandleStatusChange(o, status, ok)
    \/ ops < MaxOrderOps /\ \E o \in Listed, ok \in BOOLEAN, id \in RandomIds :
            HandleMarkPaid(o, ok, id)
    \/ ops < MaxOrderOps /\ \E o \in Listed, ok \in BOOLEAN, id \in RandomIds :
            HandleDeleteOrder(o, ok, id)
    \/ ops < MaxOrderOps /\ \E o \in Listed, ok \in BOOLEAN, reloadOk \in BOOLEAN, id \in RandomIds :
            \E status \in {Entry(o).status, "dispatched"},
               items \in {Entry(o).items, EditedItems(Entry(o).items)} :
                SubmitUpdateOrder(o, status, items, ok, reloadOk, id)

SpecOrders == InitOrders /\ [][NextOrders]_vars

(***************************************************************************)
(* A call site that passes a status outside the OrderStatus type: the type *)
(* annotation of handleStatusChange is erased at run time.                 *)
(***************************************************************************)
InvalidStatusChange ==
    ops < MaxOrderOps /\ \E o \in Listed, ok \in BOOLEAN : HandleStatusChange(o, "shipped", ok)

NextInvalidStatus ==
    \/ NextOrders
    \/ InvalidStatusChange

SpecInvalidStatus == InitOrders /\ [][NextInvalidStatus]_vars

(***************************************************************************)
(* Order creation and the dashboard: two order forms (one in this session, *)
(* one elsewhere) create orders from a small choice of line items, and the *)
(* dashboard loads its data.                                               *)
(***************************************************************************)
MaxCreateOps == 4

ItemChoices ==
    { << Item("p1", 4, 10) >>,
      << Item("p1", 3, 10) >>,
      << Item("p1", 4, 10), Item("p2", 2, 5) >> }

ItemProducts(items) == { items[k].productId : k \in 1..Len(items) }

InitCreate ==
    /\ InitHooks
    /\ hasNotificationAPI = FALSE
    /\ permission = "default"
    /\ ctorThrows = FALSE
    /\ storage = NoItem
    /\ seq = 0
    /\ InitBackend

NextCreate ==
    \/ Mount
    \/ ops < MaxCreateOps /\ \E ok \in BOOLEAN, id \in RandomIds : LoadDashboard(ok, id)
    \/ ops < MaxCreateOps /\ \E f \in FormIds, ok \in BOOLEAN : LoadProducts(f, ok)
    \/ ops < MaxCreateOps /\ \E f \in FormIds, status \in {"pending", "dispatched"},
                                items \in ItemChoices, ok \in BOOLEAN, id \in RandomIds :
            \E stockOk \in [ProductIds -> BOOLEAN], reloadOk \in BOOLEAN :
                /\ \A p \in ProductIds \ ItemProducts(items) : stockOk[p]
                /\ f # "here" => reloadOk
                /\ SubmitCreateOrder(f, status, items, ok, stockOk, reloadOk, id)

SpecCreate == InitCreate /\ [][NextCreate]_vars

(***************************************************************************)
(* Overlapping calls on the Orders page: lifecycle requests whose          *)
(* responses are still awaited while the actor goes on, and list loads     *)
(* fired while earlier loads are still awaited.                            *)
(***************************************************************************)
MaxFlightOps == 3

NextMutations ==
    \/ Mount
    \/ ops < MaxFlightOps /\ \E tab \in {"all", "my-orders"}, ok \in BOOLEAN : ChangeTab(tab, ok)
    \/ ops < MaxFlightOps /\ \E o \in Listed, status \in OrderStatuses, ok \in BOOLEAN :
            StartStatusChange(o, status, ok)
    \/ ops < MaxFlightOps /\ \E o \in Listed, ok \in BOOLEAN : StartMarkPaid(o, ok)
    \/ \E k \in InFlight(mutations), id \in RandomIds : CompleteMutation(k, id)

SpecMutations == InitOrders /\ [][NextMutations]_vars

NextLoads ==
    \/ Mount
    \/ ops < MaxFlightOps /\ \E tab \in {"all", "my-orders", "pending"}, ok \in BOOLEAN :
            StartChangeTab(tab, ok)
    \/ ops < MaxFlightOps /\ \E ok \in BOOLEAN : StartSetDateRange(ok)
    \/ ops < MaxFlightOps /\ ClearDateRange
    \/ \E k \in InFlight(loads) : CompleteLoad(k)

SpecLoads == InitOrders /\ [][NextLoads]_vars

(***************************************************************************)
(* The Visibility Policy: an order that is not visible to an actor is not  *)
(* editable by that actor either.                                          *)
(***************************************************************************)
IsVisible(actor, order) ==
    CASE actor.role = "admin" -> TRUE
      [] actor.role = "staff" -> order.assignedTo = NoOne \/ order.assignedTo = actor.id
      [] OTHER -> order.createdBy # NoOne /\ order.createdBy = actor.id

IsEditable(actor, order) == IsVisible(actor, order)

(***************************************************************************)
(* Properties of the notification store.                                   *)
(***************************************************************************)

\* C1: after any sequence of addNotification / markAsRead / markAllAsRead /
\* clearNotifications the exposed unreadCount equals the number of stored
\* notifications whose read flag is false.
C1_UnreadCountIsDerived == unreadCount = Unread(notifications)

\* C2: the store holds at most 50 records in every reachable state.
C2_AtMostFifty == Len(notifications) <= MaxNotifications

C2_Witness ==
    /\ Len(notifications) = MaxNotifications
    /\ seq > MaxNotifications
    /\ lastOp = "add"

\* C3: appending distinct notifications N_1, N_2, ... to an empty store
\* leaves the most recent 50 of them, newest first: after N_1..N_51 the
\* store is exactly N_51, N_50, ..., N_2 (only the oldest, N_1, is evicted).
C3_OldestEvicted ==
    /\ Len(notifications) = Min(seq, MaxNotifications)
    /\ \A i \in 1..Len(notifications) :
          /\ notifications[i].message = seq + 1 - i
          /\ notifications[i].title = "Notice"
          /\ notifications[i].id = seq + 1 - i

C3_Witness ==
    /\ seq = MaxNotifications + 1
    /\ Len(notifications) = MaxNotifications
    /\ notifications[1].message = MaxNotifications + 1
    /\ notifications[MaxNotifications].message = 2

\* C4: notifications are stored in call order, most recent first: each
\* addNotification call (also a second call before any re-render) puts its
\* record at the head and leaves the records already stored behind it in
\* their order, losing none but the one the cap evicts.
C4_CallOrder ==
    [][ lastOp' \in {"add", "markPaid"} =>
          /\ Len(notifications') = Min(Len(notifications) + 1, MaxNotifications)
          /\ notifications'[1].message = seq'
          /\ \A i \in 2..Len(notifications') : notifications'[i] = notifications[i - 1]
      ]_vars

StoredMessages == {storage.items[i].message : i \in 1..Len(storage.items)}

C4_Witness ==
    /\ lastOp = "add"
    /\ pending = 2
    /\ Len(notifications) >= 3
    /\ notifications[1].message = seq
    /\ notifications[2].message = seq - 1
    /\ storage.present
    /\ seq \notin StoredMessages
    /\ (seq - 1) \notin StoredMessages

\* C5: markAsRead(id) on a notification that is already read is a no-op:
\* the record list and the unread count are the same after the call.
AlreadyRead(id) ==
    /\ \E i \in 1..Len(notifications) : notifications[i].id = id
    /\ \A i \in 1..Len(notifications) : notifications[i].id = id => notifications[i].read

C5_MarkAsReadIdempotent ==
    [][ \A id \in MarkTargets :
          (AlreadyRead(id) /\ MarkAsRead(id)) =>
              (notifications' = notifications /\ unreadCount' = unreadCount)
      ]_vars

\* C6: clearNotifications leaves an empty record list and an unread count
\* of 0, whatever the store held.
C6_ClearEmpties ==
    lastOp = "clear" => (notifications = << >> /\ unreadCount = 0)

C6_Witness ==
    /\ lastOp = "clear"
    /\ ops = 1
    /\ seq = MaxNotifications - 1
    /\ notifications = << >>

\* C7: all notifications in the store have pairwise distinct ids.
C7_UniqueIds ==
    \A i, j \in 1..Len(notifications) :
        notifications[i].id = notifications[j].id => i = j

\* C8: a restart (hook state reset, mount effects run) after any sequence
\* of store operations loads the same records in the same order with the
\* same read flags, and unreadCount is the number of unread records.
C8_SurvivesRestart ==
    [][ lastOp' = "restart" =>
          /\ notifications' = notifications
          /\ unreadCount' = Unread(notifications')
      ]_vars

C8_Witness ==
    /\ lastOp = "restart"
    /\ Len(notifications) >= 2
    /\ \E i \in 1..Len(notifications) : notifications[i].read
    /\ \E i \in 1..Len(notifications) : ~notifications[i].read
    /\ notifications[1].message > MaxNotifications

\* C9: on load a stored record whose timestamp cannot be parsed is dropped
\* and never enters the in-memory store.
C9_CorruptEntryDropped ==
    \A i \in 1..Len(notifications) : notifications[i].timestamp.valid

\* C10: a failure of the browser alert never propagates out of
\* addNotification, and the mark-paid handler does not report an error
\* after the remote call succeeded.
C10_MirrorFailureSwallowed ==
    /\ ~thrown
    /\ lastOp = "markPaid" => toast = "Order marked as paid"

\* C11: a mount of the provider issues exactly one permission request when
\* the API exists and the permission is neither granted nor denied, and none
\* otherwise; no other step (addNotification included) issues a request, so
\* a denied permission is never asked for again.
C11_PermissionRequestOnlyOnInit ==
    [][ permissionRequests' =
          IF /\ lastOp' \in {"mount", "restart"}
             /\ hasNotificationAPI
             /\ permission \notin {"granted", "denied"}
          THEN permissionRequests + 1
          ELSE permissionRequests ]_vars

C11_Witness ==
    /\ lastOp = "restart"
    /\ permission = "denied"
    /\ permissionRequests = 1

(***************************************************************************)
(* Properties of the order workflow.                                       *)
(***************************************************************************)
FailedMutations == {"statusChangeFailed", "markPaidFailed", "deleteFailed"}

\* C12: when the remote call of a status change, a mark-paid or a delete
\* fails, the in-memory order list is unchanged and no notification is
\* appended.
C12_FailedMutationChangesNothing ==
    [][ lastOp' \in FailedMutations =>
          /\ lastRequest'.n = lastRequest.n + 1
          /\ orders' = orders
          /\ notifications' = notifications
          /\ unreadCount' = unreadCount ]_vars

C12_Witness ==
    /\ lastOp \in FailedMutations
    /\ lastRequest.id \in Listed
    /\ Entry(lastRequest.id) = remote[lastRequest.id]
    /\ notifications = << >>

\* C13: every successful order mutation (status change, mark paid, delete,
\* full edit) appends exactly one notification.
C13_OneNotificationPerMutation ==
    [][ lastOp' \in {"statusChange", "markPaid", "delete", "updateOrder"} =>
          Len(notifications') = Len(notifications) + 1 ]_vars

\* C14: for a staff actor the order list never contains an order that is
\* assigned to somebody else.
C14_StaffSeesOwnOrUnassigned ==
    user.role = "staff" =>
        \A i \in 1..Len(orders) :
            orders[i].assignedTo = NoOne \/ orders[i].assignedTo = user.id

\* C15: for an executive actor the order list contains only orders whose
\* createdBy is the actor; an order without a creator is never listed.
C15_ExecutiveSeesOwnCreated ==
    user.role = "executive" =>
        \A i \in 1..Len(orders) : orders[i].createdBy = user.id

\* C16: dispatchDate is set once: no update, from the status handler or
\* from the update form, overwrites a dispatchDate an order already has.
C16_DispatchDateSetOnce ==
    [][ \A o \in OrderIds :
          remote[o].dispatchDate # NoDate =>
              remote'[o].dispatchDate = remote[o].dispatchDate ]_vars

\* C17: marking an order paid that is already paid succeeds and leaves the
\* paidAt of the first call in place.
C17_SecondMarkPaidKeepsPaidAt ==
    [][ (lastOp' = "markPaid" /\ remote[lastRequest'.id].isPaid) =>
          remote'[lastRequest'.id] = remote[lastRequest'.id] ]_vars

\* C18: a status change to a value outside pending, dc, invoice, dispatched
\* is rejected: no remote mutation is issued for it and no order takes it.
C18_InvalidStatusRejected ==
    /\ lastRequest.kind = "updateOrder" => lastRequest.patch.status \in OrderStatuses
    /\ \A o \in OrderIds : remote[o].status \in OrderStatuses
    /\ \A i \in 1..Len(orders) : orders[i].status \in OrderStatuses

CommercialFields == {"total", "items", "paymentCondition"}

SameCommercialFields(a, b) == \A f \in CommercialFields : a[f] = b[f]

LifecycleStep == lastOp' \in {"statusChange", "markPaid"}

\* C19 as stated: a lifecycle transition (status change, mark paid) sends a
\* patch without total, items and payment condition, and the in-memory
\* order has the same total, items and payment condition after it as before.
C19_InMemoryFieldsKept ==
    [][ LifecycleStep =>
          /\ DOMAIN lastRequest'.patch \cap CommercialFields = {}
          /\ SameCommercialFields(EntryOf(orders', lastRequest'.id), Entry(lastRequest'.id)) ]_vars

\* C19 amended: a lifecycle transition sends a patch without total, items
\* and payment condition and leaves them unchanged in the remote record;
\* the in-memory order takes the remote record's values, which are those
\* it had before only if the entry was up to date.
C19_TransitionKeepsCommercialFields ==
    [][ LifecycleStep =>
          /\ DOMAIN lastRequest'.patch \cap CommercialFields = {}
          /\ SameCommercialFields(remote'[lastRequest'.id], remote[lastRequest'.id])
          /\ SameCommercialFields(EntryOf(orders', lastRequest'.id), remote[lastRequest'.id])
          /\ (Entry(lastRequest'.id) = remote[lastRequest'.id] =>
                SameCommercialFields(EntryOf(orders', lastRequest'.id), Entry(lastRequest'.id))) ]_vars

C19_Witness ==
    /\ lastOp = "statusChange"
    /\ lastRequest.id \in Listed
    /\ Entry(lastRequest.id).total # InitialOrder(lastRequest.id).total

\* C20: no remote mutation is issued for an order the Visibility Policy
\* does not let the actor edit.
C20_NoRequestWhenEditDenied ==
    [][ lastRequest'.n # lastRequest.n =>
          IsEditable(user, remote[lastRequest'.id]) ]_vars

SameButRead(a, b) ==
    /\ [a EXCEPT !.read = TRUE] = [b EXCEPT !.read = TRUE]
    /\ a.read => b.read

\* C25: a stored notification is immutable except for its read flag: a
\* record that stays in the store (moved down by one on an append, in place
\* otherwise) keeps id, type, title, message, timestamp and actionUrl, and
\* its read flag never goes from true back to false.
C25_RecordsImmutable ==
    [][ \A i \in 1..Len(notifications) :
          LET j == IF seq' # seq THEN i + 1 ELSE i
          IN  j <= Len(notifications') =>
                SameButRead(notifications[i], notifications'[j]) ]_vars

C25_Witness ==
    /\ lastOp = "markAsRead"
    /\ Len(notifications) >= 2
    /\ notifications[1].read
    /\ ~notifications[2].read
    /\ seq > 2

\* C29: markAsRead with an id that is not in the store leaves the record
\* list and the unread count unchanged.  (When every stored record is
\* unread, a markAsRead that leaves the list as it was had an absent id.)
C29_AbsentIdChangesNothing ==
    [][ ( /\ lastOp' = "markAsRead"
          /\ \A i \in 1..Len(notifications) : ~notifications[i].read
          /\ notifications' = notifications )
        => unreadCount' = unreadCount ]_vars

(***************************************************************************)
(* Properties of order creation and of the dashboard.                      *)
(***************************************************************************)

\* C21: every create-order request carries the status pending, whatever
\* was entered in the form.
C21_CreatedPending ==
    lastRequest.kind = "createOrder" => lastRequest.patch.status = "pending"

\* C22: a dashboard data load appends exactly one 'Low Stock Alert' when the
\* load succeeds and at least one product has a numeric threshold and a
\* stock below it, and appends nothing otherwise; it never appends one
\* notification per low-stock product.
C22_OneLowStockAlertPerLoad ==
    [][ lastOp' \in {"loadDashboard", "loadDashboardFailed"} =>
          IF /\ lastOp' = "loadDashboard"
             /\ \E p \in ProductIds :
                    /\ products[p].threshold.isNumber
                    /\ products[p].stock < products[p].threshold.n
          THEN /\ Len(notifications') = Len(notifications) + 1
               /\ Tail(notifications') = notifications
               /\ notifications'[1].title = "Low Stock Alert"
          ELSE notifications' = notifications ]_vars

C22_Witness ==
    /\ lastOp = "loadDashboard"
    /\ Cardinality(LowStockItems(products)) = 2
    /\ Len(notifications) = 2
    /\ notifications[1].title = "Low Stock Alert"
    /\ notifications[2].title = "New Order Created"

\* C24: once the order is created remotely, a failing stock update of one
\* line item neither stops the stock updates of the other line items nor
\* fails the creation: the order exists, the 'New Order Created'
\* notification is appended, the success callback runs, every line item had
\* its stock update sent, and exactly the products whose update succeeded
\* have the new stock.
C24_StockFailureTolerated ==
    [][ lastOp' = "createOrder" =>
          LET o     == lastRequest'.id
              items == lastRequest'.patch.items
              sent  == SubSeq(stockRequests', Len(stockRequests) + 1, Len(stockRequests'))
          IN  /\ remote'[o].exists
              /\ Len(notifications') = Len(notifications) + 1
              /\ notifications'[1].title = "New Order Created"
              /\ forms'["here"] = NotLoaded
              /\ Len(sent) = Len(items)
              /\ \A k \in 1..Len(sent) :
                    /\ sent[k].id = items[k].productId
                    /\ products'[sent[k].id].stock =
                          IF sent[k].ok THEN sent[k].stock
                                        ELSE products[sent[k].id].stock ]_vars

C24_Witness ==
    /\ lastOp = "createOrder"
    /\ remote["o4"].exists
    /\ Len(stockRequests) = 2
    /\ ~stockRequests[1].ok
    /\ stockRequests[2].ok
    /\ products["p1"].stock = InitialProducts["p1"].stock
    /\ products["p2"].stock = stockRequests[2].stock
    /\ products["p2"].stock < InitialProducts["p2"].stock
    /\ notifications # << >>
    /\ notifications[1].title = "New Order Created"

Ordered(o, p) ==
    LET items == remote[o].items
        ks    == { k \in 1..Len(items) : items[k].productId = p }
    IN  IF ks = {} THEN 0 ELSE items[CHOOSE k \in ks : TRUE].quantity

\* C30: stock written by order creation is never negative and accounts for
\* every created order: after two creations that succeeded with all their
\* stock updates, each product's stock is max(0, s - q1 - q2).
C30_StockAccountsForEveryOrder ==
    /\ \A p \in ProductIds : products[p].stock >= 0
    /\ ( /\ remote["o4"].exists
         /\ remote["o5"].exists
         /\ Len(stockRequests) = Len(remote["o4"].items) + Len(remote["o5"].items)
         /\ \A k \in 1..Len(stockRequests) : stockRequests[k].ok )
       => \A p \in ProductIds :
             products[p].stock =
                Max(0, InitialProducts[p].stock - Ordered("o4", p) - Ordered("o5", p))

(***************************************************************************)
(* Properties of overlapping calls.                                        *)
(***************************************************************************)
DoneOps == {"statusChangeDone", "markPaidDone"}

\* C26: when exactly two lifecycle mutations on two different orders were in
\* flight together and both succeeded, then right after the second handler
\* has completed the list holds the remote result of both orders.
C26_BothResultsKept ==
    ( /\ lastOp \in DoneOps
      /\ Len(mutations) = 2
      /\ \A k \in 1..2 : mutations[k].done /\ mutations[k].ok
      /\ mutations[2].overlapped
      /\ mutations[1].id # mutations[2].id
      /\ {mutations[1].id, mutations[2].id} \subseteq Listed )
    => \A k \in 1..2 : Entry(mutations[k].id) = mutations[k].updated

\* C27: once every order-list load has completed, the list is the result of
\* the load requested last, in whatever order the responses arrived.
C27_LastRequestedLoadWins ==
    ( /\ loads # << >>
      /\ InFlight(loads) = {}
      /\ loads[Len(loads)].ok )
    => orders = loads[Len(loads)].result

\* C28: isUpdateLoading is true exactly while at least one status-change or
\* mark-paid request is in flight.
C28_LoadingFlagTracksInFlight ==
    isUpdateLoading <=> InFlight(mutations) # {}

==============================================================================
